---- MODULE Spec2Model ----
(***************************************************************************)
(* Model of the Telegram astrology bot: the SQLite store (database.py),    *)
(* the payment handler (payments.py) and the registration conversation,    *)
(* edit flows and daily job scheduling (bot.py).                           *)
(*                                                                         *)
(* Encoding of Python values:                                              *)
(*   None / NULL of a text column ........ the string NoneStr              *)
(*   None / NULL of a structured value ... the empty tuple <<>>            *)
(*   "HH:MM" ............................. <<hour, minute>>                *)
(*   ISO date "YYYY-MM-DD" ............... <<year, month, day>>            *)
(*   ISO timestamp (datetime.isoformat) .. <<day number, minute of day>>   *)
(*   a datetime .......................... minutes since the epoch         *)
(*   Optional[row] (fetchone) ............ <<>> or <<row>>                 *)
(***************************************************************************)
EXTENDS Integers, Sequences, FiniteSets, TLC

VARIABLES
    db,         \* the connection's view of the database (pending writes included)
    disk,       \* the committed (durable) database
    now,        \* datetime.utcnow(), in minutes
    jobs,       \* the job queue: sequence of daily jobs
    conv,       \* ConversationHandler state per user
    user_data,  \* context.user_data per user
    fired,      \* per user: callback invocations during the current calendar day
    assigned,   \* per referral code: the users whose committed profile has held it
    last        \* the last operation run: name, user, argument, raised?, effects

vars == <<db, disk, now, jobs, conv, user_data, fired, assigned, last>>

----------------------------------------------------------------------------
(* Bounds of the exploration *)

MaxDay == 2
MaxPayDay == 0
MaxPeriods == 2

(* Program constants *)

REFERRAL_BONUS == 10
SUBSCRIPTION_PERIOD_DAYS == 30
SUBSCRIPTION_PRICE == 49900

MinutesPerDay == 24 * 60
SUBSCRIPTION_PERIOD == SUBSCRIPTION_PERIOD_DAYS * MinutesPerDay
SUBSCRIPTION_CURRENCY == "RUB"
DEFAULT_MESSAGE_TIME == <<9, 0>>

(* Value universes *)

NoneStr == "<None>"
Users == {1, 2}
NoUser == 0
Codes == {"c1", "c2"}
PaymentIds == {"p1", "p2"}

ChatOf(u) == 100 + u

----------------------------------------------------------------------------
(* Python helpers *)

\* truthiness of a text value: None and "" are falsy
Truthy(s) == s # NoneStr /\ s # ""

\* datetime.isoformat() and datetime.fromisoformat()
isoformat(t) == <<t \div MinutesPerDay, t % MinutesPerDay>>
fromisoformat(s) == s[1] * MinutesPerDay + s[2]

Put(d, k, v) == [x \in (DOMAIN d) \cup {k} |-> IF x = k THEN v ELSE d[x]]
Get(d, k, default) == IF k \in DOMAIN d THEN d[k] ELSE default
Pop(d, k) == [x \in (DOMAIN d) \ {k} |-> d[x]]

Last(op, u, arg, raised, out) ==
    [op |-> op, user |-> u, arg |-> arg, raised |-> raised, out |-> out]

----------------------------------------------------------------------------
(* database.py: schema and statements *)

EmptyDB == [users |-> {}, referrals |-> <<>>, payments |-> {}]

\* SELECT * FROM users WHERE user_id = ? ; fetchone()
get_user(d, user_id) ==
    LET rows == {r \in d.users : r.user_id = user_id}
    IN  IF rows = {} THEN <<>> ELSE <<CHOOSE r \in rows : TRUE>>

\* the codes _generate_unique_code can return: those no user row holds
generate_unique_code(d) ==
    {c \in Codes : \A r \in d.users : r.referral_code # c}

get_referral_code(d, user_id) ==
    LET row == get_user(d, user_id)
    IN  IF row # <<>> THEN row[1].referral_code ELSE NoneStr

\* the arguments of add_user, as a record
UserArgs(user_id, chat_id, name, birth_date, birth_time, birth_place, message_time, referred_by) ==
    [user_id |-> user_id, chat_id |-> chat_id, name |-> name,
     birth_date |-> birth_date, birth_time |-> birth_time,
     birth_place |-> birth_place, message_time |-> message_time,
     referred_by |-> referred_by]

\* INSERT INTO users: columns not given take their DEFAULT
NewUserRow(a, registered_on, referral_code) ==
    [user_id |-> a.user_id, chat_id |-> a.chat_id, name |-> a.name,
     birth_date |-> a.birth_date, birth_time |-> a.birth_time,
     birth_place |-> a.birth_place, message_time |-> a.message_time,
     registered_on |-> registered_on, referral_code |-> referral_code,
     referred_by |-> a.referred_by, points |-> 0, is_subscribed |-> 0,
     subscription_expiry |-> <<>>]

\* PRIMARY KEY (user_id) and UNIQUE (referral_code) of the users table
UsersConstraintOk(d, row) ==
    \A r \in d.users :
        r.user_id # row.user_id /\ r.referral_code # row.referral_code

Fails == {"none", "insert_user", "insert_referral", "update_points", "commit"}

\* add_user past its existence check: three statements and a commit on the
\* shared connection.  `fail` names the statement on which the store raises;
\* the statements before it stay applied in the open transaction.
insert_new_user(d, k, a, code, t, fail) ==
    LET row == NewUserRow(a, isoformat(t), code)
        credit == Truthy(a.referred_by)
        d1 == [d EXCEPT !.users = @ \cup {row}]
        d2 == IF credit
              THEN [d1 EXCEPT !.referrals =
                        Append(@, [referrer_code |-> a.referred_by,
                                   referred_user_id |-> a.user_id,
                                   timestamp |-> isoformat(t)])]
              ELSE d1
        d3 == IF credit
              THEN [d2 EXCEPT !.users =
                        {IF r.referral_code = a.referred_by
                         THEN [r EXCEPT !.points = @ + REFERRAL_BONUS]
                         ELSE r : r \in @}]
              ELSE d2
    IN  IF fail = "insert_user" \/ ~UsersConstraintOk(d, row)
        THEN [db |-> d, disk |-> k, raised |-> TRUE]
        ELSE IF credit /\ fail = "insert_referral"
        THEN [db |-> d1, disk |-> k, raised |-> TRUE]
        ELSE IF credit /\ fail = "update_points"
        THEN [db |-> d2, disk |-> k, raised |-> TRUE]
        ELSE IF fail = "commit"
        THEN [db |-> d3, disk |-> k, raised |-> TRUE]
        ELSE [db |-> d3, disk |-> d3, raised |-> FALSE]

\* mutant of add_user: the existence check is dropped
add_user_unchecked(d, k, a, code, t, fail) ==
    insert_new_user(d, k, a, code, t, fail)

\* mutant of add_user: a referral code that no profile owns is an error
add_user_known_code(d, k, a, code, t, fail) ==
    IF get_user(d, a.user_id) # <<>>
    THEN [db |-> d, disk |-> k, raised |-> FALSE]
    ELSE IF Truthy(a.referred_by) /\ \A r \in d.users : r.referral_code # a.referred_by
    THEN [db |-> d, disk |-> k, raised |-> TRUE]
    ELSE insert_new_user(d, k, a, code, t, fail)

\* Database.add_user(user_id, ..., referred_by); `code` is the value
\* _generate_unique_code returns
add_user(d, k, a, code, t, fail) ==
    IF get_user(d, a.user_id) # <<>>
    THEN [db |-> d, disk |-> k, raised |-> FALSE]
    ELSE insert_new_user(d, k, a, code, t, fail)

\* mutant of update_user: the row is written anew from the given columns,
\* and the referral columns take their defaults
update_user_replace(d, k, user_id, kwargs) ==
    IF DOMAIN kwargs = {}
    THEN [db |-> d, disk |-> k]
    ELSE LET d1 == [d EXCEPT !.users =
                      {IF r.user_id = user_id
                       THEN [c \in DOMAIN r |->
                               IF c \in DOMAIN kwargs THEN kwargs[c]
                               ELSE IF c = "referred_by" THEN NoneStr ELSE r[c]]
                       ELSE r : r \in @}]
         IN  [db |-> d1, disk |-> d1]

\* UPDATE users SET <columns> WHERE user_id = ? ; commit.  kwargs is a
\* function from column names to values.
update_user(d, k, user_id, kwargs) ==
    IF DOMAIN kwargs = {}
    THEN [db |-> d, disk |-> k]
    ELSE LET d1 == [d EXCEPT !.users =
                      {IF r.user_id = user_id
                       THEN [c \in DOMAIN r |->
                               IF c \in DOMAIN kwargs THEN kwargs[c] ELSE r[c]]
                       ELSE r : r \in @}]
         IN  [db |-> d1, disk |-> d1]

\* Database.delete_user: DELETE FROM users WHERE user_id = ? ; commit
delete_user(d, k, user_id) ==
    LET d1 == [d EXCEPT !.users = {r \in @ : r.user_id # user_id}]
    IN  [db |-> d1, disk |-> d1]

\* UPDATE users SET is_subscribed = 1, subscription_expiry = ? ; commit
set_subscription(d, k, user_id, expiry) ==
    LET d1 == [d EXCEPT !.users =
                 {IF r.user_id = user_id
                  THEN [r EXCEPT !.is_subscribed = 1,
                                 !.subscription_expiry = isoformat(expiry)]
                  ELSE r : r \in @}]
    IN  [db |-> d1, disk |-> d1]

\* mutant of check_subscription: the expiry instant still counts as active
check_subscription_inclusive(d, user_id, t) ==
    LET row == get_user(d, user_id)
    IN  IF row = <<>> THEN FALSE
        ELSE IF row[1].is_subscribed # 1 \/ row[1].subscription_expiry = <<>>
        THEN FALSE
        ELSE fromisoformat(row[1].subscription_expiry) >= t

check_subscription(d, user_id, t) ==
    LET row == get_user(d, user_id)
    IN  IF row = <<>> THEN FALSE
        ELSE IF row[1].is_subscribed # 1 \/ row[1].subscription_expiry = <<>>
        THEN FALSE
        ELSE fromisoformat(row[1].subscription_expiry) > t

PaymentRow(payment_id, user_id, amount, currency, status, t) ==
    [payment_id |-> payment_id, user_id |-> user_id, amount |-> amount,
     currency |-> currency, status |-> status, timestamp |-> isoformat(t)]

\* mutant of record_payment: a plain INSERT into a table without the key
record_payment_append(d, k, payment_id, user_id, amount, currency, status, t) ==
    LET d1 == [d EXCEPT !.payments =
                 @ \cup {PaymentRow(payment_id, user_id, amount, currency,
                                    status, t)}]
    IN  [db |-> d1, disk |-> d1]

\* INSERT OR REPLACE INTO payments (payment_id PRIMARY KEY) ; commit
record_payment(d, k, payment_id, user_id, amount, currency, status, t) ==
    LET kept == {r \in d.payments : r.payment_id # payment_id}
        d1 == [d EXCEPT !.payments =
                 kept \cup {PaymentRow(payment_id, user_id, amount, currency,
                                       status, t)}]
    IN  [db |-> d1, disk |-> d1]

----------------------------------------------------------------------------
(* The clock.  Instants are the minutes at which a time of ClockTimes       *)
(* occurs; update handlers run between the scheduler's wake-ups.            *)

ClockTimes == {<<9, 0>>, <<9, 30>>, <<10, 0>>}
PayClockTimes == {<<9, 0>>}

MinuteOfDay(tm) == tm[1] * 60 + tm[2]
DayOf(t) == t \div MinutesPerDay

\* the first instant after t at which the wall clock shows tm
NextOccurrence(tm, t) ==
    LET today == DayOf(t) * MinutesPerDay + MinuteOfDay(tm)
    IN  IF today > t THEN today ELSE today + MinutesPerDay

\* the first instant after t at which the wall clock shows a time of `times`
NextInstant(times, t) ==
    LET cands == {NextOccurrence(tm, t) : tm \in times}
    IN  CHOOSE c \in cands : \A e \in cands : c <= e

\* the explored instants: the first days of the first subscription periods
InWindow(t, maxDay) ==
    /\ (t % SUBSCRIPTION_PERIOD) \div MinutesPerDay <= maxDay
    /\ t < MaxPeriods * SUBSCRIPTION_PERIOD

NoJobDue == \A i \in DOMAIN jobs : jobs[i].next_run > now

----------------------------------------------------------------------------
(* bot.py: the job queue *)

job_name(user_id) == <<"daily", user_id>>

\* job_queue.run_daily(send_daily_message, time, name, data)
run_daily(js, tm, name, user_id, t) ==
    Append(js, [name |-> name, time |-> tm, data |-> [user_id |-> user_id],
                next_run |-> NextOccurrence(tm, t)])

\* mutant of schedule_daily_job: the previous jobs are not removed
schedule_daily_job_keep(js, user_id, message_time, t) ==
    run_daily(js, <<message_time[1], message_time[2]>>, job_name(user_id),
              user_id, t)

\* for job in get_jobs_by_name(name): job.schedule_removal(); then run_daily
schedule_daily_job(js, user_id, message_time, t) ==
    LET kept == SelectSeq(js, LAMBDA j : j.name # job_name(user_id))
    IN  run_daily(kept, <<message_time[1], message_time[2]>>,
                  job_name(user_id), user_id, t)

\* get_all_users(): rows in primary key order
RECURSIVE RowsInOrder(_)
RowsInOrder(rows) ==
    IF rows = {} THEN <<>>
    ELSE LET r == CHOOSE x \in rows : \A y \in rows : x.user_id <= y.user_id
         IN  <<r>> \o RowsInOrder(rows \ {r})

RECURSIVE on_startup_from(_, _, _)
on_startup_from(js, rows, t) ==
    IF rows = <<>> THEN js
    ELSE LET row == Head(rows)
             mt == IF row.message_time # <<>> THEN row.message_time
                   ELSE DEFAULT_MESSAGE_TIME
             kept == SelectSeq(js, LAMBDA j : j.name # job_name(row.user_id))
         IN  on_startup_from(
                 run_daily(kept, <<mt[1], mt[2]>>, job_name(row.user_id),
                           row.user_id, t),
                 Tail(rows), t)

\* mutant of on_startup: a row without a message time gets no job
on_startup_skip_null(d, t) ==
    on_startup_from(<<>>, RowsInOrder({r \in d.users : r.message_time # <<>>}), t)

\* build_application.on_startup on a fresh job queue
on_startup(d, t) == on_startup_from(<<>>, RowsInOrder(d.users), t)

\* generate_message(name, compute_natal_positions(birth_date, birth_time))
Forecast(name, birth_date, birth_time) == <<name, birth_date, birth_time>>

UPSELL == "subscribe via /menu"

\* mutant of send_daily_message: a failed send unschedules the user
send_daily_message_unschedule(d, js, job, t, sendOk) ==
    LET user_id == job.data.user_id
        user == get_user(d, user_id)
        is_subscribed == check_subscription(d, user_id, t)
        text == [forecast |-> Forecast(user[1].name, user[1].birth_date,
                                       user[1].birth_time),
                 suffix |-> IF is_subscribed THEN "" ELSE UPSELL]
    IN  IF user_id = NoUser \/ user = <<>>
        THEN [out |-> <<>>, raised |-> FALSE, jobs |-> js]
        ELSE IF sendOk
        THEN [out |-> << <<"send", user[1].chat_id, text>> >>,
              raised |-> FALSE, jobs |-> js]
        ELSE [out |-> << <<"send_failed", user[1].chat_id, text>> >>,
              raised |-> FALSE,
              jobs |-> SelectSeq(js, LAMBDA j : j.name # job.name)]

\* mutant of send_daily_message: nothing is sent without a subscription
send_daily_message_gated(d, js, job, t, sendOk) ==
    LET user_id == job.data.user_id
        user == get_user(d, user_id)
        is_subscribed == check_subscription(d, user_id, t)
        text == [forecast |-> Forecast(user[1].name, user[1].birth_date,
                                       user[1].birth_time),
                 suffix |-> ""]
    IN  IF user_id = NoUser \/ user = <<>> \/ ~is_subscribed
        THEN [out |-> <<>>, raised |-> FALSE, jobs |-> js]
        ELSE IF sendOk
        THEN [out |-> << <<"send", user[1].chat_id, text>> >>,
              raised |-> FALSE, jobs |-> js]
        ELSE [out |-> << <<"send_failed", user[1].chat_id, text>> >>,
              raised |-> FALSE, jobs |-> js]

\* the daily callback: what it sends, whether it raises, and the job queue
\* it leaves behind
send_daily_message(d, js, job, t, sendOk) ==
    LET user_id == job.data.user_id
        user == get_user(d, user_id)
        is_subscribed == check_subscription(d, user_id, t)
        text == [forecast |-> Forecast(user[1].name, user[1].birth_date,
                                       user[1].birth_time),
                 suffix |-> IF is_subscribed THEN "" ELSE UPSELL]
    IN  IF user_id = NoUser \/ user = <<>>
        THEN [out |-> <<>>, raised |-> FALSE, jobs |-> js]
        ELSE IF sendOk
        THEN [out |-> << <<"send", user[1].chat_id, text>> >>,
              raised |-> FALSE, jobs |-> js]
        ELSE [out |-> << <<"send_failed", user[1].chat_id, text>> >>,
              raised |-> FALSE, jobs |-> js]

----------------------------------------------------------------------------
(* payments.py *)

\* build_subscription_invoice(user_id)["payload"], split at "_"
InvoicePayload(user_id) == <<"subscription", user_id>>
Payloads == {InvoicePayload(u) : u \in Users} \cup {<<"subscription">>}

\* int(payload.split("_")[1]), falling back to message.from_user.id
PayloadUser(payload, from_user) ==
    IF Len(payload) >= 2 THEN payload[2] ELSE from_user

\* mutant of handle_successful_payment: a renewal extends the stored expiry
handle_successful_payment_stack(d, k, from_user, payload, payment_id, t) ==
    LET user_id == PayloadUser(payload, from_user)
        r1 == record_payment(d, k, payment_id, user_id, SUBSCRIPTION_PRICE,
                             SUBSCRIPTION_CURRENCY, "successful", t)
        row == get_user(d, user_id)
        from == IF row # <<>> /\ check_subscription(d, user_id, t)
                THEN fromisoformat(row[1].subscription_expiry) ELSE t
        r2 == set_subscription(r1.db, r1.disk, user_id, from + SUBSCRIPTION_PERIOD)
    IN  [db |-> r2.db, disk |-> r2.disk, user_id |-> user_id,
         out |-> << <<"reply", ChatOf(from_user), "subscription activated">> >>]

handle_successful_payment(d, k, from_user, payload, payment_id, t) ==
    LET user_id == PayloadUser(payload, from_user)
        r1 == record_payment(d, k, payment_id, user_id, SUBSCRIPTION_PRICE,
                             SUBSCRIPTION_CURRENCY, "successful", t)
        expiry == t + SUBSCRIPTION_PERIOD
        r2 == set_subscription(r1.db, r1.disk, user_id, expiry)
    IN  [db |-> r2.db, disk |-> r2.disk, user_id |-> user_id,
         out |-> << <<"reply", ChatOf(from_user), "subscription activated">> >>]

----------------------------------------------------------------------------
(* bot.py: texts and validators.  An incoming text is a record: what it      *)
(* reads as (words, a d.m.y date, an h:m time), its value, and whether it    *)
(* carries surrounding whitespace.                                           *)

Words(w) == [kind |-> "words", v |-> w, pad |-> FALSE]
Padded(text) == [text EXCEPT !.pad = TRUE]
DateText(d, m, y) == [kind |-> "date", v |-> <<d, m, y>>, pad |-> FALSE]
TimeText(h, m) == [kind |-> "time", v |-> <<h, m>>, pad |-> FALSE]

\* str.strip()
strip(text) == [text EXCEPT !.pad = FALSE]

IsLeap(y) == (y % 4 = 0 /\ y % 100 # 0) \/ y % 400 = 0
DaysInMonth(m, y) ==
    IF m = 2 THEN (IF IsLeap(y) THEN 29 ELSE 28)
    ELSE IF m \in {4, 6, 9, 11} THEN 30 ELSE 31

\* mutant of parse_date: every fourth year is taken for a leap year
parse_date_julian(text) ==
    IF /\ text.kind = "date"
       /\ ~text.pad
       /\ text.v[3] \in 1..9999
       /\ text.v[2] \in 1..12
       /\ text.v[1] \in 1..(IF text.v[2] = 2 /\ text.v[3] % 4 = 0 THEN 29
                            ELSE DaysInMonth(text.v[2], text.v[3]))
    THEN <<text.v[3], text.v[2], text.v[1]>>
    ELSE <<>>

\* datetime.strptime(text, "%d.%m.%Y").strftime("%Y-%m-%d"), None on error
parse_date(text) ==
    IF /\ text.kind = "date"
       /\ ~text.pad
       /\ text.v[3] \in 1..9999
       /\ text.v[2] \in 1..12
       /\ text.v[1] \in 1..DaysInMonth(text.v[2], text.v[3])
    THEN <<text.v[3], text.v[2], text.v[1]>>
    ELSE <<>>

\* datetime.strptime(text, "%H:%M").strftime("%H:%M"), None on error
parse_time(text) ==
    IF /\ text.kind = "time"
       /\ ~text.pad
       /\ text.v[1] \in 0..23
       /\ text.v[2] \in 0..59
    THEN <<text.v[1], text.v[2]>>
    ELSE <<>>

----------------------------------------------------------------------------
(* bot.py: the registration conversation.  Each handler maps the session    *)
(* to the next conversation state, the new user_data and what it sent.      *)

RegStates == {"NAME", "BIRTH_DATE", "BIRTH_TIME", "BIRTH_PLACE", "MESSAGE_TIME", "CONFIRM"}
END == "END"

\* mutant of start: the referral code is stored before the existence check
start_store_first(d, ud, user_id, args) ==
    LET existing == get_user(d, user_id)
        ref_code == IF args # <<>> THEN args[1] ELSE NoneStr
    IN  IF existing # <<>>
        THEN [state |-> END, user_data |-> Put(ud, "ref_code", ref_code),
              out |-> << <<"reply", "already registered">> >>]
        ELSE [state |-> "NAME", user_data |-> Put(ud, "ref_code", ref_code),
              out |-> << <<"reply", "welcome">> >>]

\* mutant of start: a referral code already in the session is kept
start_keep_first(d, ud, user_id, args) ==
    LET existing == get_user(d, user_id)
        ref_code == IF args # <<>> THEN args[1] ELSE NoneStr
    IN  IF existing # <<>>
        THEN [state |-> END, user_data |-> ud,
              out |-> << <<"reply", "already registered">> >>]
        ELSE [state |-> "NAME",
              user_data |-> Put(ud, "ref_code", Get(ud, "ref_code", ref_code)),
              out |-> << <<"reply", "welcome">> >>]

start(d, ud, user_id, args) ==
    LET existing == get_user(d, user_id)
        ref_code == IF args # <<>> THEN args[1] ELSE NoneStr
    IN  IF existing # <<>>
        THEN [state |-> END, user_data |-> ud,
              out |-> << <<"reply", "already registered">> >>]
        ELSE [state |-> "NAME", user_data |-> Put(ud, "ref_code", ref_code),
              out |-> << <<"reply", "welcome">> >>]

ask_birth_date(ud, text) ==
    [state |-> "BIRTH_DATE", user_data |-> Put(ud, "name", strip(text).v),
     out |-> << <<"reply", "ask birth date">> >>]

\* mutant of ask_birth_time: a valid date moves on to the birth place
ask_birth_time_skip(ud, text) ==
    LET date_str == parse_date(strip(text))
    IN  IF date_str = <<>>
        THEN [state |-> "BIRTH_DATE", user_data |-> ud,
              out |-> << <<"reply", "bad date">> >>]
        ELSE [state |-> "BIRTH_PLACE",
              user_data |-> Put(ud, "birth_date", date_str),
              out |-> << <<"reply", "ask birth place">> >>]

ask_birth_time(ud, text) ==
    LET date_str == parse_date(strip(text))
    IN  IF date_str = <<>>
        THEN [state |-> "BIRTH_DATE", user_data |-> ud,
              out |-> << <<"reply", "bad date">> >>]
        ELSE [state |-> "BIRTH_TIME",
              user_data |-> Put(ud, "birth_date", date_str),
              out |-> << <<"reply", "ask birth time">> >>]

ask_birth_place(ud, text) ==
    LET time_str == parse_time(strip(text))
    IN  IF time_str = <<>>
        THEN [state |-> "BIRTH_TIME", user_data |-> ud,
              out |-> << <<"reply", "bad time">> >>]
        ELSE [state |-> "BIRTH_PLACE",
              user_data |-> Put(ud, "birth_time", time_str),
              out |-> << <<"reply", "ask birth place">> >>]

ask_message_time(ud, text) ==
    [state |-> "MESSAGE_TIME",
     user_data |-> Put(ud, "birth_place", strip(text).v),
     out |-> << <<"reply", "ask message time">> >>]

\* mutant of confirm_registration: an invalid time falls back to the default
confirm_registration_default(ud, text) ==
    LET time_str == parse_time(strip(text))
    IN  [state |-> "CONFIRM",
         user_data |-> Put(ud, "message_time",
                           IF time_str = <<>> THEN DEFAULT_MESSAGE_TIME ELSE time_str),
         out |-> << <<"reply", "summary">> >>]

confirm_registration(ud, text) ==
    LET time_str == parse_time(strip(text))
    IN  IF time_str = <<>>
        THEN [state |-> "MESSAGE_TIME", user_data |-> ud,
              out |-> << <<"reply", "bad time">> >>]
        ELSE [state |-> "CONFIRM",
              user_data |-> Put(ud, "message_time", time_str),
              out |-> << <<"reply", "summary">> >>]

\* the sends of handle_confirm_profile, in order; `net` names the one on
\* which the transport raises
Nets == {"ok", "answer", "forecast", "get_me", "link"}

\* the arguments handle_confirm_profile reads from user_data
ConfirmArgs(ud, user_id, chat_id) ==
    UserArgs(user_id, chat_id, Get(ud, "name", NoneStr),
             Get(ud, "birth_date", <<>>), Get(ud, "birth_time", <<>>),
             Get(ud, "birth_place", NoneStr),
             Get(ud, "message_time", DEFAULT_MESSAGE_TIME),
             Get(ud, "ref_code", NoneStr))

\* mutant of handle_confirm_profile: the first forecast is sent before the
\* profile is stored and the job installed
handle_confirm_profile_send_first(d, k, js, ud, user_id, chat_id, code, t, fail, net) ==
    LET a == ConfirmArgs(ud, user_id, chat_id)
        r == add_user(d, k, a, code, t, fail)
        js1 == schedule_daily_job(js, user_id, a.message_time, t)
        forecast == Forecast(a.name, a.birth_date, a.birth_time)
        my_code == get_referral_code(r.db, user_id)
        o1 == << <<"answer">>, <<"send", chat_id, forecast>> >>
        o2 == o1 \o << <<"add_user">>, <<"schedule", a.message_time>> >>
    IN  IF net = "answer"
        THEN [db |-> d, disk |-> k, jobs |-> js, state |-> "CONFIRM",
              raised |-> TRUE, out |-> <<>>]
        ELSE IF net = "forecast"
        THEN [db |-> d, disk |-> k, jobs |-> js, state |-> "CONFIRM",
              raised |-> TRUE, out |-> << <<"answer">> >>]
        ELSE IF r.raised
        THEN [db |-> r.db, disk |-> r.disk, jobs |-> js, state |-> "CONFIRM",
              raised |-> TRUE, out |-> o1]
        ELSE IF net = "get_me" \/ (net = "link" /\ Truthy(my_code))
        THEN [db |-> r.db, disk |-> r.disk, jobs |-> js1, state |-> "CONFIRM",
              raised |-> TRUE, out |-> o2]
        ELSE [db |-> r.db, disk |-> r.disk, jobs |-> js1, state |-> END,
              raised |-> FALSE,
              out |-> IF Truthy(my_code)
                      THEN Append(o2, <<"send", chat_id, <<"link", my_code>> >>)
                      ELSE o2]

\* handle_confirm_profile: answer the query, add_user, schedule_daily_job,
\* send the first forecast, send the referral link.  A raise leaves the
\* conversation in CONFIRM.
handle_confirm_profile(d, k, js, ud, user_id, chat_id, code, t, fail, net) ==
    LET a == ConfirmArgs(ud, user_id, chat_id)
        r == add_user(d, k, a, code, t, fail)
        js1 == schedule_daily_job(js, user_id, a.message_time, t)
        forecast == Forecast(a.name, a.birth_date, a.birth_time)
        my_code == get_referral_code(r.db, user_id)
        o1 == << <<"answer">>, <<"add_user">>, <<"schedule", a.message_time>> >>
        o2 == Append(o1, <<"send", chat_id, forecast>>)
    IN  IF net = "answer"
        THEN [db |-> d, disk |-> k, jobs |-> js, state |-> "CONFIRM",
              raised |-> TRUE, out |-> <<>>]
        ELSE IF r.raised
        THEN [db |-> r.db, disk |-> r.disk, jobs |-> js, state |-> "CONFIRM",
              raised |-> TRUE, out |-> << <<"answer">> >>]
        ELSE IF net = "forecast"
        THEN [db |-> r.db, disk |-> r.disk, jobs |-> js1, state |-> "CONFIRM",
              raised |-> TRUE, out |-> o1]
        ELSE IF net = "get_me" \/ (net = "link" /\ Truthy(my_code))
        THEN [db |-> r.db, disk |-> r.disk, jobs |-> js1, state |-> "CONFIRM",
              raised |-> TRUE, out |-> o2]
        ELSE [db |-> r.db, disk |-> r.disk, jobs |-> js1, state |-> END,
              raised |-> FALSE,
              out |-> IF Truthy(my_code)
                      THEN Append(o2, <<"send", chat_id, <<"link", my_code>> >>)
                      ELSE o2]

----------------------------------------------------------------------------
(* bot.py: the menu and the edit flows *)

MenuData == {"edit_data", "edit_time", "ref_status", "buy_subscription"}

\* SELECT COUNT( * ) FROM referrals WHERE referrer_code = ?, and the points
get_referral_status(d, user_id) ==
    LET code == get_referral_code(d, user_id)
        count == Cardinality({i \in DOMAIN d.referrals :
                                 d.referrals[i].referrer_code = code})
        row == get_user(d, user_id)
    IN  IF ~Truthy(code) THEN <<0, 0>>
        ELSE <<count, IF row # <<>> THEN row[1].points ELSE 0>>

handle_menu_callback(d, ud, user_id, data) ==
    IF data = "edit_data"
    THEN [user_data |-> Put(ud, "edit_field", "name"),
          out |-> << <<"answer">>, <<"reply", "ask name">> >>]
    ELSE IF data = "edit_time"
    THEN [user_data |-> Put(ud, "edit_field", "message_time"),
          out |-> << <<"answer">>, <<"reply", "ask time">> >>]
    ELSE IF data = "ref_status"
    THEN [user_data |-> ud,
          out |-> << <<"answer">>,
                     <<"reply", get_referral_status(d, user_id)>> >>]
    ELSE [user_data |-> ud,
          out |-> << <<"answer">>, <<"invoice", InvoicePayload(user_id)>> >>]

\* mutant of handle_edit_message: the new time is stored, the job is kept
handle_edit_message_keep_job(d, k, js, ud, user_id, text, t) ==
    LET field == Get(ud, "edit_field", NoneStr)
        stripped == strip(text)
        new_time == parse_time(stripped)
        r1 == update_user(d, k, user_id, [name |-> stripped.v])
        r2 == update_user(d, k, user_id, [message_time |-> new_time])
    IN  IF ~Truthy(field)
        THEN [db |-> d, disk |-> k, jobs |-> js, user_data |-> ud, out |-> <<>>]
        ELSE IF field = "name"
        THEN [db |-> r1.db, disk |-> r1.disk, jobs |-> js,
              user_data |-> Pop(ud, "edit_field"),
              out |-> << <<"reply", "name updated">> >>]
        ELSE IF new_time = <<>>
        THEN [db |-> d, disk |-> k, jobs |-> js, user_data |-> ud,
              out |-> << <<"reply", "bad time">> >>]
        ELSE [db |-> r2.db, disk |-> r2.disk, jobs |-> js,
              user_data |-> Pop(ud, "edit_field"),
              out |-> << <<"reply", "time updated">> >>]

handle_edit_message(d, k, js, ud, user_id, text, t) ==
    LET field == Get(ud, "edit_field", NoneStr)
        stripped == strip(text)
        new_time == parse_time(stripped)
        r1 == update_user(d, k, user_id, [name |-> stripped.v])
        r2 == update_user(d, k, user_id, [message_time |-> new_time])
    IN  IF ~Truthy(field)
        THEN [db |-> d, disk |-> k, jobs |-> js, user_data |-> ud, out |-> <<>>]
        ELSE IF field = "name"
        THEN [db |-> r1.db, disk |-> r1.disk, jobs |-> js,
              user_data |-> Pop(ud, "edit_field"),
              out |-> << <<"reply", "name updated">> >>]
        ELSE IF field = "message_time"
        THEN IF new_time = <<>>
             THEN [db |-> d, disk |-> k, jobs |-> js, user_data |-> ud,
                   out |-> << <<"reply", "bad time">> >>]
             ELSE [db |-> r2.db, disk |-> r2.disk,
                   jobs |-> schedule_daily_job(js, user_id, new_time, t),
                   user_data |-> Pop(ud, "edit_field"),
                   out |-> << <<"schedule", new_time>>,
                              <<"reply", "time updated">> >>]
        ELSE [db |-> d, disk |-> k, jobs |-> js,
              user_data |-> Pop(ud, "edit_field"), out |-> <<>>]

----------------------------------------------------------------------------
(* Initial states *)

EmptyDict == [x \in {} |-> NoneStr]

Names == {"Anna", "Bob"}
BIRTH_DATE_0 == <<2000, 1, 1>>
BIRTH_TIME_0 == <<12, 0>>
BIRTH_PLACE_0 == "Berlin"

\* the record of held codes, brought up to the committed database k
EverHeld(a, k) ==
    [c \in Codes |-> a[c] \cup {r.user_id : r \in {x \in k.users : x.referral_code = c}}]

\* a fresh process on an empty database file
Init ==
    /\ db = EmptyDB
    /\ disk = EmptyDB
    /\ assigned = EverHeld([c \in Codes |-> {}], EmptyDB)
    /\ now = 0
    /\ jobs = on_startup(EmptyDB, 0)
    /\ conv = [u \in Users |-> "END"]
    /\ user_data = [u \in Users |-> EmptyDict]
    /\ fired = [u \in Users |-> 0]
    /\ last = Last("init", NoUser, <<>>, FALSE, <<>>)

\* a database file left by an earlier run: user 1 is registered
SeedArgs1 == UserArgs(1, ChatOf(1), "Anna", BIRTH_DATE_0, BIRTH_TIME_0, BIRTH_PLACE_0, <<9, 0>>, NoneStr)
SeedDB1 == add_user(EmptyDB, EmptyDB, SeedArgs1, "c1", 0, "none").db

\* ... and user 2, who came by user 1's referral link
SeedArgs2 == UserArgs(2, ChatOf(2), "Bob", BIRTH_DATE_0, BIRTH_TIME_0, BIRTH_PLACE_0, <<10, 0>>, "c1")
SeedDB2 == add_user(SeedDB1, SeedDB1, SeedArgs2, "c2", 0, "none").db

\* a fresh process on the database file d: on_startup has run
InitOn(d) ==
    /\ db = d
    /\ disk = d
    /\ assigned = EverHeld([c \in Codes |-> {}], d)
    /\ now = 0
    /\ jobs = on_startup(d, 0)
    /\ conv = [u \in Users |-> END]
    /\ user_data = [u \in Users |-> EmptyDict]
    /\ fired = [u \in Users |-> 0]
    /\ last = Last("init", NoUser, <<>>, FALSE, <<>>)

\* profiles of users who registered earlier and hold the codes of S
Holder == [c \in Codes |-> IF c = "c1" THEN 3 ELSE 4]
HeldDB(S) ==
    [EmptyDB EXCEPT !.users =
        {NewUserRow(UserArgs(Holder[c], ChatOf(Holder[c]), "Eve", BIRTH_DATE_0,
                             BIRTH_TIME_0, BIRTH_PLACE_0, DEFAULT_MESSAGE_TIME,
                             NoneStr),
                    isoformat(0), c) : c \in S}]
InitGen == \E S \in SUBSET Codes : InitOn(HeldDB(S))

InitOne == InitOn(SeedDB1)
InitTwo == InitOn(SeedDB2)

----------------------------------------------------------------------------
(* Operations of the Database class, called on the shared connection *)

\* the value _generate_unique_code returns, when add_user comes to call it
CodeDrawn(d, user_id, code) ==
    IF get_user(d, user_id) # <<>> THEN code = NoneStr
    ELSE code \in generate_unique_code(d)

AddUser(u, name, mt, ref, code, fail) ==
    /\ CodeDrawn(db, u, code)
    /\ LET a == UserArgs(u, ChatOf(u), name, BIRTH_DATE_0, BIRTH_TIME_0,
                         BIRTH_PLACE_0, mt, ref)
           r == add_user(db, disk, a, code, now, fail)
       IN  /\ db' = r.db
           /\ disk' = r.disk
           /\ assigned' = EverHeld(assigned, r.disk)
           /\ last' = Last("add_user", u, <<>>, r.raised, <<>>)
    /\ UNCHANGED <<now, jobs, conv, user_data, fired>>

\* mutant of code_is_free: a code some profile names in referred_by counts
\* as taken too
code_is_free_unnamed(d, code) ==
    \A r \in d.users : r.referral_code # code /\ r.referred_by # code

\* SELECT 1 FROM users WHERE referral_code = ? ; fetchone() is None
code_is_free(d, code) ==
    \A r \in d.users : r.referral_code # code

\* add_user is inside the loop of _generate_unique_code for last.user
InGenerator == last.op = "_generate_unique_code"

\* add_user(u, ..., referred_by = ref) finds no profile of u and enters the
\* loop of _generate_unique_code
GenCall(u, ref) ==
    /\ ~InGenerator
    /\ get_user(db, u) = <<>>
    /\ last' = Last("_generate_unique_code", u, <<ref>>, FALSE, <<>>)
    /\ UNCHANGED <<db, disk, assigned, now, jobs, conv, user_data, fired>>

\* one pass of the loop: secrets.token_hex draws `code`; a code in use is
\* dropped and the loop goes round, a free one is returned and add_user
\* runs to its commit
GenDraw(code) ==
    /\ InGenerator
    /\ IF code_is_free(db, code)
       THEN LET a == UserArgs(last.user, ChatOf(last.user), "Anna", BIRTH_DATE_0,
                              BIRTH_TIME_0, BIRTH_PLACE_0, DEFAULT_MESSAGE_TIME,
                              last.arg[1])
                r == add_user(db, disk, a, code, now, "none")
            IN  /\ db' = r.db
                /\ disk' = r.disk
                /\ assigned' = EverHeld(assigned, r.disk)
                /\ last' = Last("add_user", last.user, <<code>>, r.raised, last.out)
       ELSE /\ last' = [last EXCEPT !.out = << <<"taken", code>> >>]
            /\ UNCHANGED <<db, disk, assigned>>
    /\ UNCHANGED <<now, jobs, conv, user_data, fired>>

UpdateUser(u, kwargs) ==
    /\ LET r == update_user(db, disk, u, kwargs)
       IN  /\ db' = r.db
           /\ disk' = r.disk
           /\ assigned' = EverHeld(assigned, r.disk)
    /\ last' = Last("update_user", u, <<>>, FALSE, <<>>)
    /\ UNCHANGED <<now, jobs, conv, user_data, fired>>

DeleteUser(u) ==
    /\ LET r == delete_user(db, disk, u)
       IN  /\ db' = r.db
           /\ disk' = r.disk
           /\ assigned' = EverHeld(assigned, r.disk)
    /\ last' = Last("delete_user", u, <<>>, FALSE, <<>>)
    /\ UNCHANGED <<now, jobs, conv, user_data, fired>>

SetSubscription(u) ==
    /\ LET r == set_subscription(db, disk, u, now + SUBSCRIPTION_PERIOD)
       IN  /\ db' = r.db
           /\ disk' = r.disk
           /\ assigned' = EverHeld(assigned, r.disk)
    /\ last' = Last("set_subscription", u, <<>>, FALSE, <<>>)
    /\ UNCHANGED <<now, jobs, conv, user_data, fired>>

\* the process stops and starts again: the open transaction is lost, the
\* conversation and session storage are empty, on_startup fills the job queue
Restart ==
    /\ NoJobDue
    /\ db' = disk
    /\ disk' = disk
    /\ assigned' = EverHeld(assigned, disk)
    /\ jobs' = on_startup(disk, now)
    /\ conv' = [u \in Users |-> "END"]
    /\ user_data' = [u \in Users |-> EmptyDict]
    /\ last' = Last("on_startup", NoUser, <<>>, FALSE, <<>>)
    /\ UNCHANGED <<now, fired>>

RefArgs == {NoneStr} \cup Codes
CodeDraws == Codes \cup {NoneStr}

NextStore ==
    \/ \E u \in Users, ref \in RefArgs, code \in CodeDraws, fail \in Fails :
            AddUser(u, "Anna", DEFAULT_MESSAGE_TIME, ref, code, fail)
    \/ \E u \in Users : UpdateUser(u, [name |-> "Bob"])
    \/ \E u \in Users : SetSubscription(u)
    \/ Restart

SpecStore == Init /\ [][NextStore]_vars

\* administration through the Database API: profiles are created with
\* either message time, a message time is cleared, a profile is deleted,
\* the process restarts
AdminTimes == {<<9, 0>>, <<10, 0>>}

NextAdmin ==
    \/ \E u \in Users, mt \in AdminTimes, code \in CodeDraws :
            AddUser(u, "Anna", mt, NoneStr, code, "none")
    \/ \E u \in Users : UpdateUser(u, [message_time |-> <<>>])
    \/ \E u \in Users : DeleteUser(u)
    \/ Restart

SpecAdmin == Init /\ [][NextAdmin]_vars

----------------------------------------------------------------------------
(* The clock and the payment-completed event *)

\* time passes to the next instant of `times`; the scheduler runs every job
\* at its run time, so the clock never passes a pending run
Tick(times, maxDay) ==
    LET t == NextInstant(times, now)
    IN  /\ InWindow(t, maxDay)
        /\ NoJobDue
        /\ \A i \in DOMAIN jobs : jobs[i].next_run >= t
        /\ now' = t
        /\ fired' = IF DayOf(t) > DayOf(now) THEN [u \in Users |-> 0] ELSE fired
        /\ last' = Last("tick", NoUser, <<>>, FALSE, <<>>)
        /\ UNCHANGED <<db, disk, assigned, jobs, conv, user_data>>

\* a whole subscription period passes; every daily job has run on each of
\* its days and waits for its next one
PeriodElapses ==
    LET t == now + SUBSCRIPTION_PERIOD
    IN  /\ t < MaxPeriods * SUBSCRIPTION_PERIOD
        /\ NoJobDue
        /\ now' = t
        /\ jobs' = [i \in DOMAIN jobs |->
                      [jobs[i] EXCEPT !.next_run = @ + SUBSCRIPTION_PERIOD]]
        /\ fired' = [u \in Users |-> 0]
        /\ last' = Last("tick", NoUser, <<>>, FALSE, <<>>)
        /\ UNCHANGED <<db, disk, assigned, conv, user_data>>

\* the scheduler runs job i at its run time and computes its next run
Fire(i, sendOk) ==
    /\ i \in DOMAIN jobs
    /\ jobs[i].next_run <= now
    /\ LET job == jobs[i]
           u == job.data.user_id
           r == send_daily_message(db, jobs, job, now, sendOk)
       IN  /\ jobs' = [k \in DOMAIN r.jobs |->
                         IF r.jobs[k] = job
                         THEN [job EXCEPT !.next_run = NextOccurrence(job.time, now)]
                         ELSE r.jobs[k]]
           /\ fired' = [fired EXCEPT ![u] = @ + 1]
           /\ last' = Last("send_daily_message", u, <<>>, r.raised, r.out)
    /\ UNCHANGED <<db, disk, assigned, now, conv, user_data>>

\* MessageHandler(filters.SUCCESSFUL_PAYMENT, handle_successful_payment)
SuccessfulPayment(from_user, payload, payment_id) ==
    /\ NoJobDue
    /\ LET r == handle_successful_payment(db, disk, from_user, payload,
                                          payment_id, now)
       IN  /\ db' = r.db
           /\ disk' = r.disk
           /\ assigned' = EverHeld(assigned, r.disk)
           /\ last' = Last("handle_successful_payment", r.user_id,
                           <<payment_id>>, FALSE, r.out)
    /\ UNCHANGED <<now, jobs, conv, user_data, fired>>

NextPay ==
    \/ \E code \in CodeDraws :
            AddUser(1, "Anna", DEFAULT_MESSAGE_TIME, NoneStr, code, "none")
    \/ \E u \in Users, payload \in Payloads, p \in PaymentIds :
            SuccessfulPayment(u, payload, p)
    \/ Tick(PayClockTimes, MaxPayDay)
    \/ PeriodElapses

SpecPay == Init /\ [][NextPay]_vars

\* daily delivery: two registered users, subscriptions set and running out,
\* profiles deleted while their jobs are installed
NextDeliver ==
    \/ \E u \in Users : SetSubscription(u)
    \/ \E u \in Users : DeleteUser(u)
    \/ \E i \in 1..Len(jobs), ok \in BOOLEAN : Fire(i, ok)
    \/ Tick(ClockTimes, MaxPayDay)
    \/ PeriodElapses

SpecDeliver == InitTwo /\ [][NextDeliver]_vars

----------------------------------------------------------------------------
(* Updates dispatched to the handlers of build_application, and job runs *)

\* mutant of StartCmd: the referral is recorded when /start arrives
StartCmd_record_referral(u, args) ==
    /\ NoJobDue
    /\ LET r == start(db, user_data[u], u, args)
           edge == [referrer_code |-> args[1], referred_user_id |-> u,
                    timestamp |-> isoformat(now)]
       IN  /\ conv' = [conv EXCEPT ![u] = r.state]
           /\ user_data' = [user_data EXCEPT ![u] = r.user_data]
           /\ db' = IF args # <<>> /\ get_user(db, u) = <<>>
                    THEN [db EXCEPT !.referrals = Append(@, edge)] ELSE db
           /\ last' = Last("start", u, args, FALSE, r.out)
    /\ UNCHANGED <<disk, assigned, now, jobs, fired>>

\* CommandHandler("start", start): entry point and fallback of every state
\* (`replaced` notes the referral code the session held when /start came)
StartCmd(u, args) ==
    /\ NoJobDue
    /\ LET r == start(db, user_data[u], u, args)
       IN  /\ conv' = [conv EXCEPT ![u] = r.state]
           /\ user_data' = [user_data EXCEPT ![u] = r.user_data]
           /\ last' = [op |-> "start", user |-> u, arg |-> args, raised |-> FALSE,
                       out |-> r.out,
                       replaced |-> Get(user_data[u], "ref_code", NoneStr)]
    /\ UNCHANGED <<db, disk, assigned, now, jobs, fired>>

\* a text message in one of the five text states of the conversation
RegText(u, state, text, r, op) ==
    /\ NoJobDue
    /\ conv[u] = state
    /\ conv' = [conv EXCEPT ![u] = r.state]
    /\ user_data' = [user_data EXCEPT ![u] = r.user_data]
    /\ last' = Last(op, u, <<text>>, FALSE, r.out)
    /\ UNCHANGED <<db, disk, assigned, now, jobs, fired>>

AskBirthDate(u, text) ==
    RegText(u, "NAME", text, ask_birth_date(user_data[u], text), "ask_birth_date")

AskBirthTime(u, text) ==
    RegText(u, "BIRTH_DATE", text, ask_birth_time(user_data[u], text), "ask_birth_time")

AskBirthPlace(u, text) ==
    RegText(u, "BIRTH_TIME", text, ask_birth_place(user_data[u], text), "ask_birth_place")

AskMessageTime(u, text) ==
    RegText(u, "BIRTH_PLACE", text, ask_message_time(user_data[u], text), "ask_message_time")

ConfirmRegistration(u, text) ==
    RegText(u, "MESSAGE_TIME", text, confirm_registration(user_data[u], text), "confirm_registration")

\* CallbackQueryHandler(handle_confirm_profile), only in state CONFIRM
ConfirmProfile(u, code, fail, net) ==
    /\ NoJobDue
    /\ conv[u] = "CONFIRM"
    /\ CodeDrawn(db, u, code)
    /\ LET r == handle_confirm_profile(db, disk, jobs, user_data[u], u, ChatOf(u), code, now, fail, net)
       IN  /\ db' = r.db
           /\ disk' = r.disk
           /\ assigned' = EverHeld(assigned, r.disk)
           /\ jobs' = r.jobs
           /\ conv' = [conv EXCEPT ![u] = r.state]
           /\ last' = Last("handle_confirm_profile", u, <<>>, r.raised, r.out)
    /\ UNCHANGED <<now, user_data, fired>>

\* CallbackQueryHandler(handle_menu_callback): a button of the keyboard that
\* /menu sends to a registered user
MenuCallback(u, data) ==
    /\ NoJobDue
    /\ get_user(db, u) # <<>>
    /\ LET r == handle_menu_callback(db, user_data[u], u, data)
       IN  /\ user_data' = [user_data EXCEPT ![u] = r.user_data]
           /\ last' = Last("handle_menu_callback", u, <<data>>, FALSE, r.out)
    /\ UNCHANGED <<db, disk, assigned, now, jobs, conv, fired>>

\* MessageHandler(TEXT, handle_edit_message): a text message that no state
\* of the conversation takes
EditMessage(u, text) ==
    /\ NoJobDue
    /\ conv[u] \in {END, "CONFIRM"}
    /\ LET r == handle_edit_message(db, disk, jobs, user_data[u], u, text, now)
       IN  /\ db' = r.db
           /\ disk' = r.disk
           /\ assigned' = EverHeld(assigned, r.disk)
           /\ jobs' = r.jobs
           /\ user_data' = [user_data EXCEPT ![u] = r.user_data]
           /\ last' = Last("handle_edit_message", u, <<text>>, FALSE, r.out)
    /\ UNCHANGED <<now, conv, fired>>

----------------------------------------------------------------------------
(* Specifications *)

Newcomers == {2}
StartArgs == {<<>>, <<"c1">>, <<"c2">>}
NameTexts == {Words("Anna"), Padded(Words(""))}
BirthDateTexts == {DateText(1, 1, 2000), DateText(31, 2, 2020)}
BirthTimeTexts == {TimeText(12, 0), TimeText(25, 0)}
PlaceTexts == {Padded(Words("Berlin"))}
MessageTimeTexts == {Padded(TimeText(9, 0)), TimeText(10, 0), TimeText(10, 60)}
EditTexts == {Words("Bob"), TimeText(9, 0), TimeText(10, 0)}

\* one fault at a time: a store failure inside add_user or a transport
\* failure on one of the handler's sends
ConfirmFaults == {<<f, "ok">> : f \in Fails} \cup {<<"none", n>> : n \in Nets}

\* registration: user 1 is registered, user 2 arrives
Next ==
    \/ \E u \in Users, args \in StartArgs : StartCmd(u, args)
    \/ \E u \in Newcomers, text \in NameTexts : AskBirthDate(u, text)
    \/ \E u \in Newcomers, text \in BirthDateTexts : AskBirthTime(u, text)
    \/ \E u \in Newcomers, text \in BirthTimeTexts : AskBirthPlace(u, text)
    \/ \E u \in Newcomers, text \in PlaceTexts : AskMessageTime(u, text)
    \/ \E u \in Newcomers, text \in MessageTimeTexts : ConfirmRegistration(u, text)
    \/ \E u \in Newcomers, code \in CodeDraws, f \in ConfirmFaults :
            ConfirmProfile(u, code, f[1], f[2])
    \/ \E u \in Newcomers, data \in MenuData : MenuCallback(u, data)
    \/ \E u \in Newcomers, text \in EditTexts : EditMessage(u, text)
    \/ Restart

Spec == InitOne /\ [][Next]_vars

\* the daily schedule: both users are registered, the clock runs
NextSched ==
    \/ \E u \in Users : MenuCallback(u, "edit_time")
    \/ \E u \in Users, text \in MessageTimeTexts : EditMessage(u, text)
    \/ \E i \in 1..Len(jobs), ok \in BOOLEAN : Fire(i, ok)
    \/ Tick(ClockTimes, MaxDay)
    \/ Restart

SpecSched == InitTwo /\ [][NextSched]_vars

\* profiles in use: user 1 is registered, user 2 is registered through the
\* Database API; both edit their name and message time, pay, and add_user
\* is called again for them.  A user asked for a name answers with a name,
\* a user asked for a time with a time.
PendingEdit(u) == Get(user_data[u], "edit_field", NoneStr)

NextFrame ==
    \/ \E u \in Users, data \in {"edit_data", "edit_time"} : MenuCallback(u, data)
    \/ \E u \in Users : PendingEdit(u) = "name" /\ EditMessage(u, Words("Bob"))
    \/ \E u \in Users : PendingEdit(u) = "message_time" /\ EditMessage(u, TimeText(10, 0))
    \/ \E u \in Users : SuccessfulPayment(u, InvoicePayload(u), "p1")
    \/ \E u \in Users, code \in CodeDraws :
            AddUser(u, "Zoe", DEFAULT_MESSAGE_TIME, "c1", code, "none")

SpecFrame == InitOne /\ [][NextFrame]_vars

\* code generation: any set of codes is held when add_user is called; the
\* draws are fair, every code keeps being drawn while the loop runs
NextGen ==
    \/ \E u \in Users, ref \in RefArgs : GenCall(u, ref)
    \/ \E code \in Codes : GenDraw(code)

FairDraws == \A code \in Codes : WF_vars(GenDraw(code))

SpecGen == InitGen /\ [][NextGen]_vars /\ FairDraws

\* the validators on their own: texts as the handlers pass them, stripped
ParseYears == {1900, 2000, 2020, 2023, 2024}
ParseDates == {DateText(d, m, y) : d \in 0..32, m \in 0..13, y \in ParseYears}
ParseTimes == {TimeText(h, m) : h \in 0..25, m \in {0, 1, 30, 59, 60, 61}}
ParseWords == {Words("Anna"), Words("")}

InitParse ==
    /\ db = EmptyDB
    /\ disk = EmptyDB
    /\ assigned = EverHeld([c \in Codes |-> {}], EmptyDB)
    /\ now = 0
    /\ jobs = <<>>
    /\ conv = [u \in Users |-> END]
    /\ user_data = [u \in Users |-> EmptyDict]
    /\ fired = [u \in Users |-> 0]
    /\ \/ \E text \in ParseDates : last = Last("input", NoUser, <<text>>, FALSE, <<>>)
       \/ \E text \in ParseTimes : last = Last("input", NoUser, <<text>>, FALSE, <<>>)
       \/ \E text \in ParseWords : last = Last("input", NoUser, <<text>>, FALSE, <<>>)

ParseDate ==
    /\ last.op = "input"
    /\ last' = Last("_parse_date", NoUser, last.arg, FALSE, <<parse_date(last.arg[1])>>)
    /\ UNCHANGED <<db, disk, assigned, now, jobs, conv, user_data, fired>>

ParseTime ==
    /\ last.op = "input"
    /\ last' = Last("_parse_time", NoUser, last.arg, FALSE, <<parse_time(last.arg[1])>>)
    /\ UNCHANGED <<db, disk, assigned, now, jobs, conv, user_data, fired>>

NextParse ==
    \/ ParseDate
    \/ ParseTime

SpecParse == InitParse /\ [][NextParse]_vars

----------------------------------------------------------------------------
(* Claims about the store and the payment ledger *)

ProfileOf(d, u) == {r \in d.users : r.user_id = u}
EdgesOf(d, u) ==
    {i \in DOMAIN d.referrals : d.referrals[i].referred_user_id = u}
PointsIn(d, u) ==
    IF ProfileOf(d, u) = {} THEN 0
    ELSE (CHOOSE r \in ProfileOf(d, u) : TRUE).points

\* the users whose referred profile becomes durable in this step
NewlyReferred ==
    {u \in Users : /\ ProfileOf(disk, u) = {}
                   /\ \E r \in ProfileOf(disk', u) : Truthy(r.referred_by)}

\* C1: referral credit is all-or-nothing in the durable state.  Whenever the
\* committed database changes, a referred profile appears in it exactly when
\* its referral edge appears, and the points of every committed profile grow
\* by the bonus for each newly committed profile referred by its code.
C1_ReferralCreditAllOrNothing ==
    [][ /\ \A u \in Users :
              (u \in NewlyReferred) <=>
                  (Cardinality(EdgesOf(disk', u)) = Cardinality(EdgesOf(disk, u)) + 1)
        /\ \A u \in Users : Cardinality(EdgesOf(disk', u)) >= Cardinality(EdgesOf(disk, u))
        /\ \A r \in disk'.users :
              r.points = PointsIn(disk, r.user_id)
                  + REFERRAL_BONUS * Cardinality(
                        {u \in NewlyReferred :
                            \E n \in ProfileOf(disk', u) :
                                n.referred_by = r.referral_code})
      ]_vars

\* C2: createProfile is idempotent per identity.  A call of add_user for a
\* user that has a profile leaves the users, the referral edges and the
\* committed database as they are and raises nothing; and no user id ever has
\* two profiles.
C2_CreateProfileIdempotent ==
    /\ [](\A u \in Users : Cardinality(ProfileOf(db, u)) <= 1)
    /\ [][ (last'.op = "add_user" /\ get_user(db, last'.user) # <<>>)
              => (db' = db /\ disk' = disk /\ ~last'.raised) ]_vars

\* a repeated add_user (it passes the name "Anna") has run on a profile since
\* renamed to "Bob", and the profile still reads "Bob"
C2_Witness ==
    /\ last.op = "add_user"
    /\ ~last.raised
    /\ \E r \in ProfileOf(db, last.user) : r.name = "Bob"

\* C3: a replayed payment-completed event (same payment id, same user) leaves
\* the subscription expiry of the subscribed user as the earlier processing
\* set it.
C3_ReplayKeepsExpiry ==
    [][ (/\ last'.op = "handle_successful_payment"
         /\ \E p \in db.payments :
                p.payment_id = last'.arg[1] /\ p.user_id = last'.user)
        => \A r \in ProfileOf(db, last'.user) :
              r.is_subscribed = 1 =>
                  \E n \in ProfileOf(db', last'.user) :
                      n.subscription_expiry = r.subscription_expiry ]_vars

PaymentRowsOf(d, p) == {r \in d.payments : r.payment_id = p}

\* C4: the payments table holds exactly one row per payment id ever recorded:
\* never two rows with one id, a recorded id keeps its single row, and after
\* a (re)delivery of payment p the single row of p is the one just written.
C4_OneRowPerPaymentId ==
    /\ [](\A p \in PaymentIds : Cardinality(PaymentRowsOf(db, p)) <= 1)
    /\ [][ \A p \in PaymentIds :
              /\ PaymentRowsOf(db, p) # {}
                    => Cardinality(PaymentRowsOf(db', p)) = 1
              /\ (last'.op = "handle_successful_payment" /\ last'.arg = <<p>>)
                    => /\ Cardinality(PaymentRowsOf(db', p)) = 1
                       /\ \A r \in PaymentRowsOf(db', p) :
                             /\ r.user_id = last'.user
                             /\ r.timestamp = isoformat(now')
                       /\ PaymentRowsOf(disk', p) = PaymentRowsOf(db', p) ]_vars

\* a replay has overwritten a row: a user was subscribed by a payment whose
\* row now names another user
C4_Witness ==
    /\ last.op = "handle_successful_payment"
    /\ \E r \in db.users :
          /\ r.is_subscribed = 1
          /\ \A p \in db.payments : p.user_id # r.user_id

\* C7: check_subscription is true exactly for a profile with is_subscribed
\* set and a non-null expiry strictly after the current time, and it is true
\* right after a payment-completed event for a user that has a profile.
C7_ActiveIffUnexpired ==
    /\ [](\A u \in Users :
            check_subscription(db, u, now) <=>
                \E r \in db.users :
                    /\ r.user_id = u
                    /\ r.is_subscribed = 1
                    /\ r.subscription_expiry # <<>>
                    /\ r.subscription_expiry[1] * MinutesPerDay
                           + r.subscription_expiry[2] > now)
    /\ [][ (last'.op = "handle_successful_payment"
                /\ ProfileOf(db, last'.user) # {})
              => /\ check_subscription(db', last'.user, now')
                 /\ \A r \in ProfileOf(db', last'.user) :
                       r.subscription_expiry
                           = isoformat(now' + SUBSCRIPTION_PERIOD_DAYS * MinutesPerDay)
         ]_vars

\* the clock stands exactly at a subscribed profile's expiry, and a user
\* without a profile has been paid for
C7_Witness ==
    /\ \E r \in db.users :
          /\ r.is_subscribed = 1
          /\ fromisoformat(r.subscription_expiry) = now
          /\ ~check_subscription(db, r.user_id, now)
    /\ \E p \in db.payments : ProfileOf(db, p.user_id) = {}

----------------------------------------------------------------------------
(* Claims about the scheduler *)

JobsOf(js, u) == {i \in DOMAIN js : js[i].name = job_name(u)}

\* the user has exactly one job, and it is the daily job at time t
OneJobAt(js, u, t, at) ==
    /\ Cardinality(JobsOf(js, u)) = 1
    /\ \A i \in JobsOf(js, u) :
          /\ js[i].time = t
          /\ js[i].data.user_id = u
          /\ js[i].next_run = NextOccurrence(t, at)

\* the times at which the step reschedules the user of its handler
Rescheduled(l) == {l.out[i][2] : i \in {j \in DOMAIN l.out : l.out[j][1] = "schedule"}}

\* C5: at every instant a user has at most one daily job.  After a handler
\* reschedules a user to t (registration confirmation, message-time edit) the
\* user has exactly one job and it fires at t; rescheduling to the time the
\* user's job already has leaves the same single job; after startup every
\* stored profile has exactly one job, at its message time.
C5_OneJobPerUser ==
    /\ [](\A u \in Users : Cardinality(JobsOf(jobs, u)) <= 1)
    /\ [][/\ \A t \in Rescheduled(last') :
                /\ OneJobAt(jobs', last'.user, t, now')
                /\ (\E i \in JobsOf(jobs, last'.user) : jobs[i].time = t)
                      => {jobs'[i] : i \in JobsOf(jobs', last'.user)}
                           = {jobs[i] : i \in JobsOf(jobs, last'.user)}
                /\ \A u \in Users \ {last'.user} :
                      {jobs'[i] : i \in JobsOf(jobs', u)} = {jobs[i] : i \in JobsOf(jobs, u)}
          /\ last'.op = "on_startup" =>
                \A u \in Users :
                   IF get_user(db', u) = <<>> THEN JobsOf(jobs', u) = {}
                   ELSE OneJobAt(jobs', u, get_user(db', u)[1].message_time, now')
         ]_vars

\* a message-time edit has moved the job of a user registered for 09:00 to 10:00
C5_Witness ==
    /\ last.op = "handle_edit_message"
    /\ Rescheduled(last) = {<<10, 0>>}
    /\ Get(user_data[last.user], "message_time", <<>>) = <<9, 0>>
    /\ OneJobAt(jobs, last.user, <<10, 0>>, now)

\* C6: on every calendar day after the first, the daily callback has been
\* invoked exactly once for every registered user when the day ends.
C6_OncePerDay ==
    [][(DayOf(now') > DayOf(now) /\ DayOf(now) >= 1)
          => \A u \in Users : get_user(db, u) # <<>> => fired[u] = 1]_vars

\* C8: a fire whose send fails makes one send attempt, leaves every job
\* installed with its name and time, moves only the fired job, to its next
\* scheduled occurrence, and leaves the other users' jobs as they were.
C8_FailedSendKeepsRecurrence ==
    [][(last'.op = "send_daily_message" /\ last'.out # <<>> /\ last'.out[1][1] = "send_failed")
          => /\ Len(last'.out) = 1
             /\ DOMAIN jobs' = DOMAIN jobs
             /\ \A i \in DOMAIN jobs :
                   IF jobs[i].name = job_name(last'.user)
                   THEN /\ jobs'[i] = [jobs[i] EXCEPT !.next_run = jobs'[i].next_run]
                        /\ jobs'[i].next_run = NextOccurrence(jobs[i].time, now')
                        /\ jobs'[i].next_run > now'
                   ELSE jobs'[i] = jobs[i]
             /\ now' = now
      ]_vars

\* a send has failed; the user's job and another user's job are installed
C8_Witness ==
    /\ last.op = "send_daily_message"
    /\ last.out # <<>>
    /\ last.out[1][1] = "send_failed"
    /\ JobsOf(jobs, last.user) # {}
    /\ \E u \in Users \ {last.user} : JobsOf(jobs, u) # {}

----------------------------------------------------------------------------
(* Claims about the registration conversation *)

Positions(out, e) == {i \in DOMAIN out : out[i] = e}

\* C9: when the confirm handler completes for a user without a profile whose
\* session holds a referral code owned by an existing user, the new profile
\* holds the five collected fields and is committed, the owner of the code
\* has REFERRAL_BONUS more points, one edge is appended, the new user has
\* one job at the chosen message time, one forecast is sent, and the handler
\* stores the profile before it installs the job and installs the job before
\* it sends the forecast.
C9_ConfirmedRegistration ==
    [][LET u == last'.user
           ud == user_data[u]
           ref == Get(ud, "ref_code", NoneStr)
           owners == {r \in db.users : r.referral_code = ref}
           a == ConfirmArgs(ud, u, ChatOf(u))
           sent == <<"send", ChatOf(u), Forecast(a.name, a.birth_date, a.birth_time)>>
           out == last'.out
       IN  (/\ last'.op = "handle_confirm_profile"
            /\ ~last'.raised
            /\ get_user(db, u) = <<>>
            /\ owners # {})
           => /\ \E row \in db'.users :
                    /\ ProfileOf(db', u) = {row}
                    /\ row.name = a.name
                    /\ row.birth_date = a.birth_date
                    /\ row.birth_time = a.birth_time
                    /\ row.birth_place = a.birth_place
                    /\ row.message_time = a.message_time
                    /\ row.referred_by = ref
                    /\ row.points = 0
              /\ disk' = db'
              /\ \A o \in owners : PointsIn(db', o.user_id) = o.points + REFERRAL_BONUS
              /\ \A r \in db.users \ owners : r \in db'.users
              /\ Cardinality(db'.users) = Cardinality(db.users) + 1
              /\ db'.referrals = Append(db.referrals, db'.referrals[Len(db'.referrals)])
              /\ db'.referrals[Len(db'.referrals)].referrer_code = ref
              /\ EdgesOf(db', u) = {Len(db'.referrals)}
              /\ OneJobAt(jobs', u, a.message_time, now')
              /\ Cardinality(Positions(out, sent)) = 1
              /\ Cardinality({i \in DOMAIN out : out[i][1] = "send" /\ out[i][3][1] # "link"}) = 1
              /\ \E i, j, n \in DOMAIN out :
                    /\ i < j
                    /\ j < n
                    /\ out[i] = <<"add_user">>
                    /\ out[j] = <<"schedule", a.message_time>>
                    /\ out[n] = sent
      ]_vars

\* user 2 has confirmed a registration started with user 1's code
C9_Witness ==
    /\ last.op = "handle_confirm_profile"
    /\ ~last.raised
    /\ \E row \in ProfileOf(db, last.user) : row.referred_by = "c1"
    /\ EdgesOf(db, last.user) # {}
    /\ PointsIn(db, 1) = REFERRAL_BONUS
    /\ conv[last.user] = END

\* C10: /start from a user who has a profile replies "already registered"
\* and ends the conversation; the database, the job queue and user_data,
\* with the referral code stored in it, stay as they were, whatever argument
\* the command carries.
C10_StartWhenRegistered ==
    [][(last'.op = "start" /\ get_user(db, last'.user) # <<>>)
          => /\ conv'[last'.user] = END
             /\ last'.out = << <<"reply", "already registered">> >>
             /\ db' = db
             /\ disk' = disk
             /\ jobs' = jobs
             /\ user_data' = user_data
      ]_vars

\* a user registered with one code has sent /start with another code
C10_Witness ==
    /\ last.op = "start"
    /\ get_user(db, last.user) # <<>>
    /\ last.arg # <<>>
    /\ Truthy(Get(user_data[last.user], "ref_code", NoneStr))
    /\ Get(user_data[last.user], "ref_code", NoneStr) # last.arg[1]
    /\ conv[last.user] = END

\* C11: a session in CONFIRM stays in CONFIRM, and its user gets no profile,
\* on every update of that user other than the press of the confirm button.
C11_ConfirmOnlyByButton ==
    [][\A u \in Users :
          (conv[u] = "CONFIRM" /\ last'.user = u /\ last'.op # "handle_confirm_profile")
             => /\ conv'[u] = "CONFIRM"
                /\ ProfileOf(db', u) = ProfileOf(db, u)
      ]_vars

DraftKeys == {"name", "birth_date", "birth_time", "birth_place", "message_time", "ref_code"}

\* C12: when the confirm handler completes and the conversation ends, none
\* of the draft fields of the registration remains in the user's user_data.
C12_DraftDiscarded ==
    [][(last'.op = "handle_confirm_profile" /\ ~last'.raised /\ conv'[last'.user] = END)
          => DOMAIN user_data'[last'.user] \cap DraftKeys = {}
      ]_vars

RegistrationInputs == {"start", "ask_birth_date", "ask_birth_time", "ask_birth_place", "ask_message_time", "confirm_registration"}

\* C13: /start and the text inputs of NAME .. MESSAGE_TIME from a user
\* without a profile leave the database (the connection's view and the
\* committed one) and the job queue as they were; the referral code given
\* to /start is held in user_data only.
C13_NothingPersistedBeforeConfirm ==
    [][(last'.op \in RegistrationInputs /\ get_user(db, last'.user) = <<>>)
          => /\ db' = db
             /\ disk' = disk
             /\ jobs' = jobs
             /\ last'.op = "start" =>
                   Get(user_data'[last'.user], "ref_code", NoneStr)
                      = (IF last'.arg = <<>> THEN NoneStr ELSE last'.arg[1])
      ]_vars

\* a newcomer who came with user 1's code has got as far as CONFIRM, and
\* user 1 still has no points and nobody's edge
C13_Witness ==
    /\ last.op = "confirm_registration"
    /\ conv[last.user] = "CONFIRM"
    /\ get_user(db, last.user) = <<>>
    /\ Get(user_data[last.user], "ref_code", NoneStr) = "c1"
    /\ PointsIn(db, 1) = 0
    /\ db.referrals = <<>>

\* the validating handlers: the state each one serves, the state it
\* advances to, the draft field it stores and the value it parses
ValidatedInputs ==
    [ask_birth_time |-> [at |-> "BIRTH_DATE", to |-> "BIRTH_TIME", field |-> "birth_date"],
     ask_birth_place |-> [at |-> "BIRTH_TIME", to |-> "BIRTH_PLACE", field |-> "birth_time"],
     confirm_registration |-> [at |-> "MESSAGE_TIME", to |-> "CONFIRM", field |-> "message_time"]]

Parsed(op, text) ==
    IF op = "ask_birth_time" THEN parse_date(strip(text)) ELSE parse_time(strip(text))

\* C14: in BIRTH_DATE, BIRTH_TIME and MESSAGE_TIME an input that fails
\* validation leaves the conversation state and the whole user_data as they
\* were; a valid input stores the parsed value in that state's one field and
\* moves to the next state; neither raises nor ends the conversation.
C14_InvalidInputReprompts ==
    [][last'.op \in DOMAIN ValidatedInputs =>
          LET u == last'.user
              h == ValidatedInputs[last'.op]
              value == Parsed(last'.op, last'.arg[1])
          IN  /\ conv[u] = h.at
              /\ ~last'.raised
              /\ conv'[u] # END
              /\ \A w \in Users \ {u} : conv'[w] = conv[w] /\ user_data'[w] = user_data[w]
              /\ IF value = <<>>
                 THEN conv'[u] = h.at /\ user_data'[u] = user_data[u]
                 ELSE /\ conv'[u] = h.to
                      /\ user_data'[u] = Put(user_data[u], h.field, value)
      ]_vars

\* an invalid birth date has been answered in BIRTH_DATE: the state is kept
\* and the draft holds what it held, the referral code and the name
C14_Witness ==
    /\ last.op = "ask_birth_time"
    /\ Parsed(last.op, last.arg[1]) = <<>>
    /\ conv[last.user] = "BIRTH_DATE"
    /\ DOMAIN user_data[last.user] = {"ref_code", "name"}

\* C15: no profile holds a name or a birth place that is empty, and a text
\* that is empty once stripped is neither stored in the draft nor advances
\* the conversation out of NAME or BIRTH_PLACE.
C15_NoEmptyNameOrPlace ==
    /\ [](\A row \in db.users : row.name # "" /\ row.birth_place # "")
    /\ [][(last'.op \in {"ask_birth_date", "ask_message_time"} /\ strip(last'.arg[1]).v = "")
             => conv' = conv /\ user_data' = user_data]_vars

----------------------------------------------------------------------------
(* Claims about the validators *)

\* day d of month m of year y exists in the Gregorian calendar
RealDate(d, m, y) ==
    /\ m \in 1..12
    /\ d >= 1
    /\ \/ d <= 28
       \/ d \in {29, 30} /\ m # 2
       \/ d = 31 /\ m \in {1, 3, 5, 7, 8, 10, 12}
       \/ d = 29 /\ m = 2 /\ y % 4 = 0 /\ (y % 100 # 0 \/ y % 400 = 0)

\* C16: _parse_time accepts a text exactly when it reads as hour:minute with
\* the hour in 0..23 and the minute in 0..59, and _parse_date exactly when it
\* reads as day.month.year of a real calendar date, which it returns as
\* year-month-day; every other text gives None.
C16_ValidatorsExact ==
    LET text == last.arg[1]
    IN  /\ last.op = "_parse_time" =>
              last.out[1] = (IF /\ text.kind = "time"
                                /\ 0 <= text.v[1] /\ text.v[1] <= 23
                                /\ 0 <= text.v[2] /\ text.v[2] <= 59
                             THEN text.v ELSE <<>>)
        /\ last.op = "_parse_date" =>
              last.out[1] = (IF text.kind = "date" /\ RealDate(text.v[1], text.v[2], text.v[3])
                             THEN <<text.v[3], text.v[2], text.v[1]>> ELSE <<>>)
        /\ parse_time(TimeText(25, 0)) = <<>>
        /\ parse_time(TimeText(10, 60)) = <<>>
        /\ parse_time(TimeText(0, 0)) = <<0, 0>>
        /\ parse_time(TimeText(23, 59)) = <<23, 59>>
        /\ parse_date(DateText(12, 13, 2020)) = <<>>
        /\ parse_date(DateText(31, 2, 2020)) = <<>>

\* "29.02.2024" has been parsed and accepted
C16_Witness ==
    /\ last.op = "_parse_date"
    /\ last.arg = <<DateText(29, 2, 2024)>>
    /\ last.out = << <<2024, 2, 29>> >>

----------------------------------------------------------------------------
(* Claims about the edit flows, startup and the daily callback *)

\* C17: for a user with a profile and a pending edit, a valid time sets the
\* profile's message_time (committed) and leaves the user exactly one job,
\* at that time, and ends the edit; an invalid time changes neither database
\* nor job queue and the edit stays pending; a name edit sets the name,
\* keeps the other columns and leaves the job queue as it was.
C17_EditWritesProfileAndJob ==
    [][LET u == last'.user
           field == Get(user_data[u], "edit_field", NoneStr)
           text == strip(last'.arg[1])
           new_time == parse_time(text)
           before == get_user(db, u)[1]
           after == get_user(db', u)[1]
       IN  (last'.op = "handle_edit_message" /\ get_user(db, u) # <<>>) =>
              /\ (field = "message_time" /\ new_time # <<>>) =>
                    /\ get_user(db', u) # <<>>
                    /\ after = [before EXCEPT !.message_time = new_time]
                    /\ disk' = db'
                    /\ OneJobAt(jobs', u, new_time, now')
                    /\ "edit_field" \notin DOMAIN user_data'[u]
              /\ (field = "message_time" /\ new_time = <<>>) =>
                    /\ db' = db
                    /\ disk' = disk
                    /\ jobs' = jobs
                    /\ user_data' = user_data
              /\ field = "name" =>
                    /\ get_user(db', u) # <<>>
                    /\ after = [before EXCEPT !.name = text.v]
                    /\ disk' = db'
                    /\ jobs' = jobs
              /\ db'.users \ ProfileOf(db', u) = db.users \ ProfileOf(db, u)
              /\ db'.referrals = db.referrals
      ]_vars

\* a user called Bob since a name edit has moved the message time to 10:00
C17_Witness ==
    /\ last.op = "handle_edit_message"
    /\ parse_time(strip(last.arg[1])) = <<10, 0>>
    /\ "edit_field" \notin DOMAIN user_data[last.user]
    /\ \E row \in ProfileOf(db, last.user) : row.name = "Bob" /\ row.message_time = <<10, 0>>
    /\ OneJobAt(jobs, last.user, <<10, 0>>, now)
    /\ Get(user_data[last.user], "message_time", <<>>) = <<9, 0>>

\* the message time on_startup uses for a row
StartupTime(row) ==
    IF row.message_time = <<>> THEN DEFAULT_MESSAGE_TIME ELSE row.message_time

\* C18: when startup has completed, the job queue holds one job for every
\* stored profile, at the profile's message time or at DEFAULT_MESSAGE_TIME
\* when the profile has none, and no job of a user without a profile.
C18_StartupRepopulates ==
    last.op \in {"init", "on_startup"} =>
       /\ Len(jobs) = Cardinality(db.users)
       /\ \A u \in Users :
             IF ProfileOf(db, u) = {} THEN JobsOf(jobs, u) = {}
             ELSE \A row \in ProfileOf(db, u) : OneJobAt(jobs, u, StartupTime(row), now)

\* the process has started on a database where user 1 has no message time,
\* user 2 has 10:00
C18_Witness ==
    /\ last.op = "on_startup"
    /\ \E row \in ProfileOf(db, 1) : row.message_time = <<>>
    /\ \E row \in ProfileOf(db, 2) : row.message_time = <<10, 0>>
    /\ OneJobAt(jobs, 1, DEFAULT_MESSAGE_TIME, now)
    /\ OneJobAt(jobs, 2, <<10, 0>>, now)

----------------------------------------------------------------------------
(* Claims about referral codes *)

\* C20: no two profiles hold the same referral code, and no code has been
\* held by the committed profiles of two different users.
C20_CodeNeverReassigned ==
    /\ \A r1, r2 \in db.users : r1.referral_code = r2.referral_code => r1 = r2
    /\ \A c \in Codes : Cardinality(assigned[c]) <= 1

----------------------------------------------------------------------------
(* Claims about the daily callback *)

----------------------------------------------------------------------------
(* Claims about renewals, the conversation order and referrals *)

\* C21: every processed payment leaves the paying user's profile subscribed
\* with the expiry at the time of processing plus SUBSCRIPTION_PERIOD,
\* whatever expiry it held before, committed, the other columns as they were.
C21_RenewalFromNow ==
    [][last'.op = "handle_successful_payment" =>
          \A row \in ProfileOf(db, last'.user) :
             /\ ProfileOf(db', last'.user)
                   = {[row EXCEPT !.is_subscribed = 1,
                                  !.subscription_expiry = isoformat(now' + SUBSCRIPTION_PERIOD)]}
             /\ ProfileOf(disk', last'.user) = ProfileOf(db', last'.user)
      ]_vars

\* a second payment has been processed later than the first, while the
\* first period was running: the expiry is the later time plus one period
C21_Witness ==
    /\ last.op = "handle_successful_payment"
    /\ now > 0
    /\ \E p \in db.payments :
          /\ p.user_id = last.user
          /\ p.payment_id # last.arg[1]
          /\ fromisoformat(p.timestamp) < now
          /\ fromisoformat(p.timestamp) + SUBSCRIPTION_PERIOD > now
    /\ \E row \in ProfileOf(db, last.user) :
          fromisoformat(row.subscription_expiry) = now + SUBSCRIPTION_PERIOD

\* the state that follows each registration state
StateAfter ==
    [NAME |-> "BIRTH_DATE", BIRTH_DATE |-> "BIRTH_TIME", BIRTH_TIME |-> "BIRTH_PLACE",
     BIRTH_PLACE |-> "MESSAGE_TIME", MESSAGE_TIME |-> "CONFIRM", CONFIRM |-> END]

DraftFields == {"name", "birth_date", "birth_time", "birth_place", "message_time"}

\* C22: a conversation changes state only to the state that follows in
\* NAME, BIRTH_DATE, BIRTH_TIME, BIRTH_PLACE, MESSAGE_TIME, CONFIRM, END,
\* leaving CONFIRM for END by the confirm button only; or by /start, to NAME
\* (to END when the user has a profile); or to END when the process
\* restarts.  A profile appears only on the confirm button pressed in
\* CONFIRM, and then the draft holds all five fields, with a parsed date and
\* parsed times.
C22_StatesInOrder ==
    [][\A u \in Users :
          /\ conv'[u] # conv[u] =>
                \/ /\ conv[u] \in DOMAIN StateAfter
                   /\ conv'[u] = StateAfter[conv[u]]
                   /\ last'.user = u
                   /\ conv[u] = "CONFIRM" => last'.op = "handle_confirm_profile"
                \/ /\ last'.op = "start"
                   /\ last'.user = u
                   /\ conv'[u] = (IF get_user(db, u) = <<>> THEN "NAME" ELSE END)
                \/ /\ last'.op = "on_startup"
                   /\ conv'[u] = END
          /\ (ProfileOf(db, u) = {} /\ ProfileOf(db', u) # {}) =>
                /\ last'.op = "handle_confirm_profile"
                /\ last'.user = u
                /\ conv[u] = "CONFIRM"
                /\ DraftFields \subseteq DOMAIN user_data[u]
                /\ Len(user_data[u].birth_date) = 3
                /\ Len(user_data[u].birth_time) = 2
                /\ Len(user_data[u].message_time) = 2
      ]_vars

\* a user who had filled in the whole draft has sent /start and is in NAME
C22_Witness ==
    /\ last.op = "start"
    /\ conv[last.user] = "NAME"
    /\ DraftFields \subseteq DOMAIN user_data[last.user]
    /\ get_user(db, last.user) = <<>>

\* C23: in every reachable state, add_user for a user without a profile,
\* with a referral code that no profile owns and no fault of the store,
\* raises nothing, creates and commits the profile with that code as
\* referred_by, and leaves the points of every other user as they were.
C23_UnknownCodeSkipped ==
    \A u \in Users, ref \in Codes, code \in generate_unique_code(db) :
        (get_user(db, u) = <<>> /\ \A r \in db.users : r.referral_code # ref) =>
            LET a == UserArgs(u, ChatOf(u), "Anna", BIRTH_DATE_0, BIRTH_TIME_0,
                              BIRTH_PLACE_0, DEFAULT_MESSAGE_TIME, ref)
                r == add_user(db, disk, a, code, now, "none")
            IN  /\ ~r.raised
                /\ \E row \in ProfileOf(r.db, u) : row.referred_by = ref
                /\ ProfileOf(r.disk, u) = ProfileOf(r.db, u)
                /\ \A v \in Users \ {u} : PointsIn(r.db, v) = PointsIn(db, v)

\* add_user has returned normally for a user referred by a code that no
\* other profile owns, next to another profile whose points are still zero
C23_Witness ==
    /\ last.op = "add_user"
    /\ ~last.raised
    /\ \E row \in ProfileOf(disk, last.user) :
          /\ Truthy(row.referred_by)
          /\ \A r \in db.users :
                r.user_id # last.user => r.referral_code # row.referred_by
    /\ \E v \in Users \ {last.user} :
          /\ ProfileOf(disk, v) # {}
          /\ PointsIn(db, v) = 0
          /\ PointsIn(disk, v) = 0

Replied(l, text) == \E i \in DOMAIN l.out : l.out[i] = <<"reply", text>>

\* the users table after one column of one user's row is set
WithColumn(d, u, col, val) ==
    [d EXCEPT !.users = {IF r.user_id = u THEN [r EXCEPT ![col] = val] ELSE r : r \in @}]

\* C24: no step changes the referral_code or the referred_by of a profile
\* that exists before and after it, in the connection's view and in the
\* committed one; a name edit leaves the database as it was but for the
\* name of the editing user, a message-time edit but for their message_time.
C24_ImmutableFields ==
    [][ /\ \A u \in Users :
              /\ \A r1 \in ProfileOf(db, u), r2 \in ProfileOf(db', u) :
                    r2.referral_code = r1.referral_code /\ r2.referred_by = r1.referred_by
              /\ \A r1 \in ProfileOf(disk, u), r2 \in ProfileOf(disk', u) :
                    r2.referral_code = r1.referral_code /\ r2.referred_by = r1.referred_by
        /\ (last'.op = "handle_edit_message" /\ Replied(last', "name updated")) =>
              db' = WithColumn(db, last'.user, "name", strip(last'.arg[1]).v)
        /\ (last'.op = "handle_edit_message" /\ Replied(last', "time updated")) =>
              db' = WithColumn(db, last'.user, "message_time", parse_time(strip(last'.arg[1])))
      ]_vars

\* a referred user has changed their name and their message time and has
\* paid, add_user has been called again, and both referral columns stand
C24_Witness ==
    /\ last.op = "add_user"
    /\ \E row \in ProfileOf(disk, 2) :
          /\ row.referred_by = "c1"
          /\ row.name = "Bob"
          /\ row.message_time = <<10, 0>>
          /\ row.is_subscribed = 1
    /\ \E row \in ProfileOf(disk, 1) :
          /\ row.referral_code = "c1"
          /\ row.name = "Bob"
          /\ row.points = REFERRAL_BONUS

\* C25: under fair draws, a call of the code generator made while some code
\* is held by no profile returns: add_user completes with a profile of the
\* caller whose code no other profile holds.
C25_GeneratorReturns ==
    \A u \in Users :
        (InGenerator /\ last.user = u /\ generate_unique_code(db) # {})
            ~> (/\ last.op = "add_user"
                /\ last.user = u
                /\ \E row \in ProfileOf(db, u) :
                      /\ row.referral_code = last.arg[1]
                      /\ \A r \in db.users \ {row} : r.referral_code # row.referral_code)

\* the generator has returned a free code after a draw that was taken
C25_Witness ==
    /\ last.op = "add_user"
    /\ last.out # <<>>
    /\ \E r \in db.users : r.user_id # last.user /\ r.referral_code = last.out[1][2]
    /\ \E row \in ProfileOf(disk, last.user) : row.referral_code = last.arg[1]

\* C25 as stated, for any set of held codes: every call of the generator
\* returns
C25_AlwaysReturns == InGenerator ~> ~InGenerator

\* C26: in every reachable state, for every user with a profile,
\* get_referral_status returns a count of referral edges naming the user's
\* code and points equal to REFERRAL_BONUS times that count.
C26_PointsMatchEdges ==
    \A r \in db.users :
        LET status == get_referral_status(db, r.user_id)
        IN  status[2] = REFERRAL_BONUS * status[1]

\* C27: in every reachable state every job belongs to a user with a profile
\* and runs at that profile's message_time, and every profile has a job.
C27_ScheduleMirrorsProfiles ==
    /\ \A i \in DOMAIN jobs :
          \E row \in ProfileOf(db, jobs[i].data.user_id) :
              /\ jobs[i].name = job_name(row.user_id)
              /\ jobs[i].time = row.message_time
    /\ \A row \in db.users : JobsOf(jobs, row.user_id) # {}

\* the referral code a session holds ("-" when it holds none yet)
RefCodeOf(ud) == Get(ud, "ref_code", "-")

\* C28: /start of a user without a profile sets the session's referral code
\* to the code it carries, or to None when it carries none; no other update
\* changes it while the process runs; and a confirmation that creates the
\* profile stores the session's code as referred_by, adds the bonus to the
\* points of the profile that owns that code and to no other, and writes
\* one edge naming it (none when the code is None).
C28_LatestCodeCredited ==
    [][LET u == last'.user
           ref == Get(user_data[u], "ref_code", NoneStr)
       IN  /\ (last'.op = "start" /\ get_user(db, u) = <<>>) =>
                 RefCodeOf(user_data'[u])
                    = (IF last'.arg = <<>> THEN NoneStr ELSE last'.arg[1])
           /\ \A v \in Users :
                 (~(last'.op = "start" /\ v = u) /\ last'.op # "on_startup") =>
                    RefCodeOf(user_data'[v]) = RefCodeOf(user_data[v])
           /\ (last'.op = "handle_confirm_profile" /\ ~last'.raised /\ get_user(db, u) = <<>>) =>
                 /\ \E row \in ProfileOf(db', u) : row.referred_by = ref
                 /\ \A r \in db'.users :
                       r.points = PointsIn(db, r.user_id)
                          + (IF Truthy(ref) /\ r.referral_code = ref
                             THEN REFERRAL_BONUS ELSE 0)
                 /\ db'.referrals =
                       (IF Truthy(ref)
                        THEN Append(db.referrals,
                                    [referrer_code |-> ref, referred_user_id |-> u,
                                     timestamp |-> isoformat(now)])
                        ELSE db.referrals)
      ]_vars

\* a user who came with user 1's code and filled in the whole draft has
\* sent /start again with no code: the session's code is cleared
C28_Witness ==
    /\ last.op = "start"
    /\ last.arg = <<>>
    /\ last.replaced = "c1"
    /\ DraftFields \subseteq DOMAIN user_data[last.user]
    /\ get_user(db, last.user) = <<>>
    /\ Get(user_data[last.user], "ref_code", "c1") = NoneStr

\* C29: in every reachable state, every profile with is_subscribed = 1 has
\* at least one payments row carrying its user_id.
C29_SubscriptionBacked ==
    \A r \in db.users :
        r.is_subscribed = 1 => \E p \in db.payments : p.user_id = r.user_id

====
